---- MODULE Spec2Model ----
(***************************************************************************)
(* Model of pkg/muni: the TTL response cache (Cache, cacheEntry) and the   *)
(* Transit Client built on it (GetAllRoutes, GetRouteDetails,              *)
(* GetPredictions, ClearCache, EnableCache, DisableCache).                 *)
(*                                                                         *)
(* Every goroutine that calls into the client is a thread with a program   *)
(* counter; a Cache method is split at the points where it touches shared  *)
(* state (the isEnabled flag, the items map, the RWMutex), so that the     *)
(* interleavings the Go scheduler can produce are interleavings of the     *)
(* model.  Time is the reading of time.Now(), in minutes.                  *)
(***************************************************************************)
EXTENDS Integers, Sequences, FiniteSets, TLC

\* ------------------------------------------------------------------ bounds
MaxTime == 2
MaxCalls == 2

\* --------------------------------------------------------------- constants
DefaultTTL == 5
StatusOK == 200

Threads == {"t1", "t2"}
NoThread == "none"

ErrNone == ""
ErrRouteIDRequired == "route ID is required"
ErrStopIDRequired == "stop ID is required"
ErrStatus == "unexpected status code"
ErrTransport == "transport"
ErrDecode == "decode"
ErrRequest == "request"

\* ------------------------------------------------------------- Go values
\* A Go value is its dynamic type, whether it is a nil slice, and its content
\* (a sequence of strings: the route ids of a []RouteInfo, the id of a
\* RouteDetails, the characters of a string).
TRoutes == "[]RouteInfo"
TDetails == "RouteDetails"
TString == "string"
TChan == "chan"
TPreds == "[]Prediction"
TPredResp == "[]PredictionResponse"

GoVal(t, n, v) == [type |-> t, isNil |-> n, v |-> v]

Zero(t) ==
    IF t \in {TRoutes, TPreds, TPredResp} THEN GoVal(t, TRUE, <<>>)
    ELSE GoVal(t, FALSE, <<"">>)

NoData == GoVal("none", TRUE, <<>>)

\* ------------------------------------------------------------ JSON texts
Doc(k, p) == [kind |-> k, payload |-> p]
Null == Doc("null", <<>>)
Malformed == Doc("malformed", <<>>)

KindOf(t) ==
    IF t \in {TRoutes, TPreds, TPredResp} THEN "array"
    ELSE IF t = TDetails THEN "object"
    ELSE "string"

\* json.Marshal: a nil slice is written as null, a channel cannot be written
Marshal(val) ==
    IF val.type = TChan THEN [ok |-> FALSE, doc |-> Malformed]
    ELSE IF val.isNil THEN [ok |-> TRUE, doc |-> Null]
    ELSE [ok |-> TRUE, doc |-> Doc(KindOf(val.type), val.v)]

\* json.Unmarshal into a fresh variable of type t: null leaves the zero
\* value, a text of another JSON kind is an error
Unmarshal(doc, t) ==
    IF doc.kind = "null" THEN [ok |-> TRUE, val |-> Zero(t)]
    ELSE IF doc.kind = KindOf(t) THEN [ok |-> TRUE, val |-> GoVal(t, FALSE, doc.payload)]
    ELSE [ok |-> FALSE, val |-> Zero(t)]

\* ------------------------------------------------------------ input sets
RouteIDs == {"", "N", "%zz"}
StopIDs == {"", "1234"}
OptTTLs == {-1, 1}

AllRoutesKey == "all_routes"
RouteDetailsKey_shared(routeID) == "route_details:"

\* line 215
RouteDetailsKey(routeID) == "route_details:" \o routeID
Keys == {AllRoutesKey, RouteDetailsKey("N")}

\* http.NewRequestWithContext parses the URL the ids were formatted into; an
\* id holding an invalid percent escape makes the parse, and the call, fail
BadEscape == "%zz"
NewRequestOK(ids) == \A i \in DOMAIN ids : ids[i] # BadEscape

\* what the upstream can answer: a transport failure, or a status and a body
Statuses == {StatusOK, 404, 500}
Bodies == {Null, Doc("array", <<"N", "J">>), Doc("object", <<"N">>), Malformed}
\* PredictionDirection and PredictionValue, with the fields GetPredictions reads
\* and the departure flag it does not
PredictionDirection(id, name, destinationName) ==
    [id |-> id, name |-> name, destinationName |-> destinationName]
PredictionValue(timestamp, minutes, isDeparture, departure, vehicleId, vehicleType, direction) ==
    [timestamp |-> timestamp, minutes |-> minutes, isDeparture |-> isDeparture,
     departure |-> departure, vehicleId |-> vehicleId, vehicleType |-> vehicleType,
     direction |-> direction]
Outbound == PredictionDirection("N_0", "Outbound", "Ocean Beach")
Inbound == PredictionDirection("N_1", "Inbound", "Caltrain")
Val1 == PredictionValue(1999, 3, TRUE, FALSE, "1050", "LRV", Outbound)
Val2 == PredictionValue(2500, 12, FALSE, TRUE, "2021", "Bus", Inbound)
Val3 == PredictionValue(-1500, 0, FALSE, FALSE, "", "", Inbound)
\* a predictions body is a list of envelopes, each the list of its values
PredBodies == {Null, Doc("array", <<>>), Doc("array", <<<<>>, <<Val2>>>>),
               Doc("array", <<<<Val1, Val3>>, <<Val2>>>>), Malformed}
Responses(bodies) ==
    {[err |-> ErrTransport, status |-> 0, body |-> Null]}
    \cup {[err |-> ErrNone, status |-> st, body |-> Null] : st \in Statuses \ {StatusOK}}
    \cup {[err |-> ErrNone, status |-> StatusOK, body |-> b] : b \in bodies}

Values == {GoVal(TRoutes, FALSE, <<"N", "J">>), GoVal(TString, FALSE, <<"data">>),
           GoVal(TChan, FALSE, <<>>)}
Types == {TRoutes, TString}

\* cacheEntry, and what the two-result map lookup of Cache.get yields
cacheEntry(data, expiration) == [data |-> data, expiration |-> expiration]
NoEntry == [found |-> FALSE, data |-> NoData, expiration |-> 0]
Lookup(m, key) ==
    IF key \in DOMAIN m
    THEN [found |-> TRUE, data |-> m[key].data, expiration |-> m[key].expiration]
    ELSE NoEntry
EmptyMap == [k \in {} |-> cacheEntry(NoData, 0)]

isExpired_atOrAfter(entry, t) == t >= entry.expiration

\* cacheEntry.isExpired at clock reading t: time.Now().After(expiration)
isExpired(entry, t) == t > entry.expiration

expirationAt_now(t, d) == t

\* line 85: time.Now().Add(c.ttl)
expirationAt(t, d) == t + d

CopyRef_alias(key) == key

\* lines 62-67: the bytes json.Marshal returns are decoded into the caller's
\* result variable, so the value of a hit lives in the caller's own memory
CopyRef(key) == "own"

Copy_lenient(data, typ) ==
    LET m == Marshal(data)
    IN  IF ~m.ok THEN [ok |-> TRUE, val |-> Zero(typ)]
        ELSE [ok |-> TRUE, val |-> Unmarshal(m.doc, typ).val]

\* the copy Cache.get makes of an entry's data, into a result of type typ
Copy(data, typ) ==
    LET m == Marshal(data)
    IN  IF ~m.ok THEN [ok |-> FALSE, val |-> Zero(typ)] ELSE Unmarshal(m.doc, typ)

\* ------------------------------------------------------------ construction
\* newCache, and the two options; NewClient applies the options in order
newCache(d) == [ttl |-> d, items |-> EmptyMap, isEnabled |-> TRUE]
WithCacheTTL(d) == [opt |-> "WithCacheTTL", ttl |-> d]
WithoutCache == [opt |-> "WithoutCache", ttl |-> 0]
ApplyOption(c, o) ==
    IF o.opt = "WithCacheTTL" THEN newCache(o.ttl)
    ELSE [c EXCEPT !.isEnabled = FALSE]
RECURSIVE ApplyOptions(_, _)
ApplyOptions(c, opts) ==
    IF opts = <<>> THEN c
    ELSE ApplyOptions(ApplyOption(c, Head(opts)), Tail(opts))
NewClient(opts) == ApplyOptions(newCache(DefaultTTL), opts)

Options == {WithCacheTTL(d) : d \in OptTTLs} \cup {WithoutCache}
OptionLists == {<<>>} \cup {<<o>> : o \in Options}
                     \cup {p \in {<<o1, o2>> : o1 \in Options, o2 \in Options} :
                                p[1].opt # p[2].opt}

\* ------------------------------------------------------------------ state
VARIABLES
    now,        \* the reading of time.Now()
    ttl,        \* Cache.ttl
    isEnabled,  \* Cache.isEnabled
    items,      \* Cache.items
    mutex,      \* Cache.mutex: the goroutines holding it for reading, and for writing
    calls,      \* number of requests handed to the HTTP transport
    th,         \* per goroutine: the call in progress, its locals and its last result
    stored,     \* history: per key, the data and time of the last set since the last clear or disable
    sinceClear, \* history: the keys set since the last clear
    seen,       \* history: the mapping as the last disable found it, and whether enable followed
    options,    \* history: the options NewClient was called with
    received    \* history: per key, the value of the latest answer that decoded

history == <<stored, sinceClear, seen, options, received>>
vars == <<now, ttl, isEnabled, items, mutex, calls, th, stored, sinceClear, seen, options,
          received>>

NoRes == [hit |-> FALSE, val |-> NoData, err |-> ErrNone, code |-> 0]
NoResp == [err |-> ErrNone, status |-> 0, body |-> Null]
\* ------------------------------------------------------------ tool calls
\* An argument of a tool call is absent or a JSON value; its content is kept
\* as text.
Missing == [kind |-> "missing", v |-> ""]
Str(s) == [kind |-> "string", v |-> s]
Bool(b) == [kind |-> "bool", v |-> IF b THEN "true" ELSE "false"]
Num(n) == [kind |-> "number", v |-> n]
Arguments(route_id, stop_id, enabled) ==
    [route_id |-> route_id, stop_id |-> stop_id, enabled |-> enabled]
NoArguments == Arguments(Missing, Missing, Missing)

\* the arguments a host may send with each tool
Tools == {"health_check", "list_all_routes", "get_route_details", "get_predictions",
          "toggle_cache", "clear_cache"}
ToolArguments(name) ==
    IF name = "get_route_details"
    THEN {Arguments(r, Missing, Missing) : r \in {Missing, Num("7"), Str("N")}}
    ELSE IF name = "get_predictions"
    THEN {Arguments(r, s, Missing) : r \in {Missing, Str("N")},
                                     s \in {Num("7"), Str("1234")}}
    ELSE IF name = "toggle_cache"
    THEN {Arguments(Missing, Missing, e) :
              e \in {Missing, Str("true"), Bool(TRUE), Bool(FALSE)}}
    ELSE {NoArguments}

\* mcp.CallToolResult, and the pair a handler returns
TextContent(text) == [type |-> "text", text |-> text]
CallToolResult(isError, content) == [isNil |-> FALSE, IsError |-> isError, Content |-> content]
NilResult == [isNil |-> TRUE, IsError |-> FALSE, Content |-> <<>>]
NewToolResultText(text) == CallToolResult(FALSE, <<TextContent(text)>>)
NewToolResultError(text) == CallToolResult(TRUE, <<TextContent(text)>>)
NoOut == [result |-> NilResult, err |-> ErrNone]

\* the tool call a goroutine of the server is handling
NoTool == [name |-> "none", args |-> NoArguments, phase |-> "none", called |-> FALSE,
           out |-> NoOut]

\* what a caller of Cache.get holds, until its next call, of a hit on a
\* slice: the value, the key it asked for, and the memory the value lives in
\* ("own": the caller's result variable; a key: the data of the cache entry
\* under that key)
NoHeld == [ref |-> "none", key |-> "", val |-> NoData]

IdleThread ==
    [op |-> "none", pc |-> "idle", key |-> "", typ |-> TString, data |-> NoData,
     routeID |-> "", stopID |-> "", entry |-> NoEntry, resp |-> NoResp,
     res |-> NoRes, at |-> 0, calls0 |-> 0,
     snap |-> [items |-> EmptyMap, isEnabled |-> TRUE, ttl |-> 0],
     held |-> NoHeld, tool |-> NoTool, overtaken |-> FALSE]
NoStored == [k \in {} |-> [data |-> NoData, at |-> 0, by |-> "none", mutated |-> FALSE,
                          routeID |-> ""]]
NotSeen == [st |-> "none", m |-> EmptyMap]

Init ==
    /\ now = 0
    /\ options \in OptionLists
    /\ ttl = NewClient(options).ttl
    /\ isEnabled = NewClient(options).isEnabled
    /\ items = NewClient(options).items
    /\ mutex = [readers |-> {}, writer |-> NoThread]
    /\ calls = 0
    /\ th = [t \in Threads |-> IdleThread]
    /\ stored = NoStored
    /\ sinceClear = {}
    /\ seen = NotSeen
    /\ received = EmptyMap

\* ------------------------------------------------------------------ clock
Tick ==
    /\ now < MaxTime
    /\ now' = now + 1
    /\ UNCHANGED <<ttl, isEnabled, items, mutex, calls, th, history>>

\* ------------------------------------------------------------ sync.RWMutex
RLock(t) ==
    /\ mutex.writer = NoThread
    /\ mutex' = [mutex EXCEPT !.readers = @ \cup {t}]
RUnlock(t) == mutex' = [mutex EXCEPT !.readers = @ \ {t}]
Lock(t) ==
    /\ mutex.writer = NoThread
    /\ mutex.readers = {}
    /\ mutex' = [mutex EXCEPT !.writer = t]
Unlock(t) == mutex' = [mutex EXCEPT !.writer = NoThread]

\* ------------------------------------------------------------------ calls
Idle(t) == th[t].pc = "idle"
FetchOps == {"GetAllRoutes", "GetRouteDetails"}

\* a goroutine enters a call: its locals are fresh
Enter(t, op, pc, key, typ, data, routeID, stopID) ==
    [IdleThread EXCEPT !.op = op, !.pc = pc, !.key = key, !.typ = typ, !.data = data,
                       !.routeID = routeID, !.stopID = stopID, !.calls0 = calls,
                       !.tool = [th[t].tool EXCEPT !.called = (th[t].tool.phase = "received")],
                       !.snap = [items |-> items, isEnabled |-> isEnabled, ttl |-> ttl]]

\* the call of goroutine t returns r to its caller
Return(t, r) == th' = [th EXCEPT ![t].pc = "idle", ![t].res = r]

Result(hit, val, err, code) == [hit |-> hit, val |-> val, err |-> err, code |-> code]

\* Cache.get returns: to the test that called it, or into GetAllRoutes /
\* GetRouteDetails, which return the copy on a hit and go on to the request
\* on a miss
getReturn(t, hit, val) ==
    IF th[t].op \in FetchOps /\ ~hit
    THEN th' = [th EXCEPT ![t].pc = "Do", ![t].at = now, ![t].entry = NoEntry]
    ELSE th' = [th EXCEPT ![t].pc = "idle", ![t].at = now, ![t].entry = NoEntry,
                          ![t].res = Result(hit, val, ErrNone, 0),
                          ![t].held = IF hit /\ th[t].op = "get" /\ val.type = TRoutes
                                      THEN [ref |-> CopyRef(th[t].key),
                                            key |-> th[t].key, val |-> val]
                                      ELSE th[t].held]

\* lines 204-206: the slice GetAllRoutes hands to set and the slice it returns
\* are one slice, so the value of a miss lives in the memory of the entry
\* stored under key
SetRef(key) == key

\* Cache.set returns: to the test that called it, or into GetAllRoutes /
\* GetRouteDetails, which return the decoded value
setReturn(t) ==
    IF th[t].op \in FetchOps
    THEN th' = [th EXCEPT ![t].pc = "idle",
                          ![t].res = Result(FALSE, th[t].data, ErrNone, 0),
                          ![t].held = IF th[t].pc = "set_items" /\ th[t].data.type = TRoutes
                                      THEN [ref |-> SetRef(th[t].key),
                                            key |-> th[t].key, val |-> th[t].data]
                                      ELSE th[t].held]
    ELSE Return(t, NoRes)

\* ---------------------------------------------------------------- Cache.get
\* the callers of the unexported get and set inside the package
CacheGet(t, key, typ) ==
    /\ Idle(t)
    /\ th' = [th EXCEPT ![t] = Enter(t, "get", "get_isEnabled", key, typ, NoData, "", "")]
    /\ UNCHANGED <<now, ttl, isEnabled, items, mutex, calls, history>>

get_isEnabled_ignored(t) ==
    /\ th[t].pc = "get_isEnabled"
    /\ th' = [th EXCEPT ![t].pc = "get_RLock"]
    /\ UNCHANGED <<now, ttl, isEnabled, items, mutex, calls, history>>

\* line 49: the flag is read before the lock is taken
get_isEnabled(t) ==
    /\ th[t].pc = "get_isEnabled"
    /\ IF ~isEnabled
       THEN getReturn(t, FALSE, Zero(th[t].typ))
       ELSE th' = [th EXCEPT ![t].pc = "get_RLock"]
    /\ UNCHANGED <<now, ttl, isEnabled, items, mutex, calls, history>>

get_RLock(t) ==
    /\ th[t].pc = "get_RLock"
    /\ RLock(t)
    /\ th' = [th EXCEPT ![t].pc = "get_items"]
    /\ UNCHANGED <<now, ttl, isEnabled, items, calls, history>>

get_items_keepLock(t) ==
    /\ th[t].pc = "get_items"
    /\ th' = [th EXCEPT ![t].pc = "get_isExpired", ![t].entry = Lookup(items, th[t].key)]
    /\ UNCHANGED <<now, ttl, isEnabled, items, mutex, calls, history>>

\* lines 54-55: the lookup, then RUnlock
get_items(t) ==
    /\ th[t].pc = "get_items"
    /\ RUnlock(t)
    /\ th' = [th EXCEPT ![t].pc = "get_isExpired", ![t].entry = Lookup(items, th[t].key)]
    /\ UNCHANGED <<now, ttl, isEnabled, items, calls, history>>

get_isExpired_foundOnly(t) ==
    /\ th[t].pc = "get_isExpired"
    /\ LET entry == th[t].entry
           c == Copy(entry.data, th[t].typ)
       IN  IF ~entry.found
           THEN getReturn(t, FALSE, Zero(th[t].typ))
           ELSE IF ~c.ok
           THEN getReturn(t, FALSE, Zero(th[t].typ))
           ELSE getReturn(t, TRUE, c.val)
    /\ UNCHANGED <<now, ttl, isEnabled, items, mutex, calls, history>>

\* lines 57-71: the expiry test against the clock, then the copy
get_isExpired(t) ==
    /\ th[t].pc = "get_isExpired"
    /\ LET entry == th[t].entry
           c == Copy(entry.data, th[t].typ)
       IN  IF ~entry.found \/ isExpired(entry, now)
           THEN getReturn(t, FALSE, Zero(th[t].typ))
           ELSE IF ~c.ok
           THEN getReturn(t, FALSE, Zero(th[t].typ))
           ELSE getReturn(t, TRUE, c.val)
    /\ UNCHANGED <<now, ttl, isEnabled, items, mutex, calls, history>>

\* ---------------------------------------------------------------- Cache.set
CacheSet(t, key, data) ==
    /\ Idle(t)
    /\ th' = [th EXCEPT ![t] = Enter(t, "set", "set_isEnabled", key, TString, data, "", "")]
    /\ UNCHANGED <<now, ttl, isEnabled, items, mutex, calls, history>>

set_isEnabled_unchecked(t) ==
    /\ th[t].pc = "set_isEnabled"
    /\ th' = [th EXCEPT ![t].pc = "set_Lock"]
    /\ UNCHANGED <<now, ttl, isEnabled, items, mutex, calls, history>>

\* line 76: the flag is read before the lock is taken
set_isEnabled(t) ==
    /\ th[t].pc = "set_isEnabled"
    /\ IF ~isEnabled
       THEN setReturn(t)
       ELSE th' = [th EXCEPT ![t].pc = "set_Lock"]
    /\ UNCHANGED <<now, ttl, isEnabled, items, mutex, calls, history>>

set_Lock(t) ==
    /\ th[t].pc = "set_Lock"
    /\ Lock(t)
    /\ th' = [th EXCEPT ![t].pc = "set_items"]
    /\ UNCHANGED <<now, ttl, isEnabled, items, calls, history>>

set_items_keepExpiry(t) ==
    /\ th[t].pc = "set_items"
    /\ items' = [k \in DOMAIN items \cup {th[t].key} |->
                    IF k = th[t].key
                    THEN cacheEntry(th[t].data, IF k \in DOMAIN items THEN items[k].expiration
                                                ELSE expirationAt(now, ttl))
                    ELSE items[k]]
    /\ Unlock(t)
    /\ setReturn(t)
    /\ stored' = [k \in DOMAIN stored \cup {th[t].key} |->
                     IF k = th[t].key
                     THEN [data |-> th[t].data, at |-> now, by |-> th[t].op,
                           mutated |-> FALSE, routeID |-> th[t].routeID]
                     ELSE stored[k]]
    /\ sinceClear' = sinceClear \cup {th[t].key}
    /\ seen' = NotSeen
    /\ UNCHANGED <<options, received>>
    /\ UNCHANGED <<now, ttl, isEnabled, calls>>

\* lines 83-86, then the deferred Unlock
set_items(t) ==
    /\ th[t].pc = "set_items"
    /\ items' = [k \in DOMAIN items \cup {th[t].key} |->
                    IF k = th[t].key THEN cacheEntry(th[t].data, expirationAt(now, ttl)) ELSE items[k]]
    /\ Unlock(t)
    /\ setReturn(t)
    /\ stored' = [k \in DOMAIN stored \cup {th[t].key} |->
                     IF k = th[t].key
                     THEN [data |-> th[t].data, at |-> now, by |-> th[t].op,
                           mutated |-> FALSE, routeID |-> th[t].routeID]
                     ELSE stored[k]]
    /\ sinceClear' = sinceClear \cup {th[t].key}
    /\ seen' = NotSeen
    /\ UNCHANGED <<options, received>>
    /\ UNCHANGED <<now, ttl, isEnabled, calls>>

\* the caller writes into the slice a call gave it (the test's result
\* variable of a get, the routes GetAllRoutes returned): the first element changes, in the caller's value and in
\* whatever shares its memory
Mutated(val) == [val EXCEPT !.v = <<"X">> \o Tail(val.v)]

Mutate(t) ==
    /\ Idle(t)
    /\ LET h == th[t].held
       IN  /\ h.ref # "none"
           /\ h.val.type = TRoutes /\ ~h.val.isNil
           /\ Len(h.val.v) > 0 /\ h.val.v[1] # "X"
           /\ th' = [th EXCEPT ![t].held.val = Mutated(h.val)]
           /\ items' = IF h.ref \in DOMAIN items /\ items[h.ref].data = h.val
                       THEN [items EXCEPT ![h.ref].data = Mutated(h.val)]
                       ELSE items
           /\ stored' = IF h.key \in DOMAIN stored
                        THEN [stored EXCEPT ![h.key].mutated = TRUE]
                        ELSE stored
    /\ UNCHANGED <<now, ttl, isEnabled, mutex, calls, sinceClear, seen, options, received>>

\* ------------------------------------------- Cache.clear / enable / disable
\* the request of goroutine u has been handed to the transport and the set
\* that may follow its answer has not written yet
Outstanding(u) ==
    /\ th[u].op \in FetchOps
    /\ th[u].pc \in {"RoundTrip", "set_isEnabled", "set_Lock"}

\* clear returns to its caller; every call whose request is outstanding at
\* that moment is from now on one that a completed clear has overtaken
clearReturn(t) ==
    th' = [u \in Threads |->
              IF u = t THEN [th[t] EXCEPT !.pc = "idle", !.res = NoRes]
              ELSE IF Outstanding(u) THEN [th[u] EXCEPT !.overtaken = TRUE]
              ELSE th[u]]

ClearCache(t) ==
    /\ Idle(t)
    /\ th' = [th EXCEPT ![t] = Enter(t, "clear", "clear_Lock", "", TString, NoData, "", "")]
    /\ UNCHANGED <<now, ttl, isEnabled, items, mutex, calls, history>>

clear_Lock(t) ==
    /\ th[t].pc = "clear_Lock"
    /\ Lock(t)
    /\ th' = [th EXCEPT ![t].pc = "clear_items"]
    /\ UNCHANGED <<now, ttl, isEnabled, items, calls, history>>

clear_items_ifEnabled(t) ==
    /\ th[t].pc = "clear_items"
    /\ items' = IF isEnabled THEN EmptyMap ELSE items
    /\ Unlock(t)
    /\ clearReturn(t)
    /\ stored' = NoStored
    /\ sinceClear' = {}
    /\ seen' = NotSeen
    /\ UNCHANGED <<options, received>>
    /\ UNCHANGED <<now, ttl, isEnabled, calls>>

\* line 94, then the deferred Unlock
clear_items(t) ==
    /\ th[t].pc = "clear_items"
    /\ items' = EmptyMap
    /\ Unlock(t)
    /\ clearReturn(t)
    /\ stored' = NoStored
    /\ sinceClear' = {}
    /\ seen' = NotSeen
    /\ UNCHANGED <<options, received>>
    /\ UNCHANGED <<now, ttl, isEnabled, calls>>

EnableCache(t) ==
    /\ Idle(t)
    /\ th' = [th EXCEPT ![t] = Enter(t, "enable", "enable_Lock", "", TString, NoData, "", "")]
    /\ UNCHANGED <<now, ttl, isEnabled, items, mutex, calls, history>>

enable_Lock(t) ==
    /\ th[t].pc = "enable_Lock"
    /\ Lock(t)
    /\ th' = [th EXCEPT ![t].pc = "enable_isEnabled"]
    /\ UNCHANGED <<now, ttl, isEnabled, items, calls, history>>

enable_isEnabled_fresh(t) ==
    /\ th[t].pc = "enable_isEnabled"
    /\ isEnabled' = TRUE
    /\ items' = IF isEnabled THEN items ELSE EmptyMap
    /\ Unlock(t)
    /\ Return(t, NoRes)
    /\ seen' = IF seen.st = "hidden" THEN [seen EXCEPT !.st = "restored"] ELSE seen
    /\ UNCHANGED <<options, received>>
    /\ UNCHANGED <<now, ttl, calls, stored, sinceClear>>

\* line 101, then the deferred Unlock
enable_isEnabled(t) ==
    /\ th[t].pc = "enable_isEnabled"
    /\ isEnabled' = TRUE
    /\ Unlock(t)
    /\ Return(t, NoRes)
    /\ seen' = IF seen.st = "hidden" THEN [seen EXCEPT !.st = "restored"] ELSE seen
    /\ UNCHANGED <<options, received>>
    /\ UNCHANGED <<now, ttl, items, calls, stored, sinceClear>>

DisableCache(t) ==
    /\ Idle(t)
    /\ th' = [th EXCEPT ![t] = Enter(t, "disable", "disable_Lock", "", TString, NoData, "", "")]
    /\ UNCHANGED <<now, ttl, isEnabled, items, mutex, calls, history>>

disable_Lock(t) ==
    /\ th[t].pc = "disable_Lock"
    /\ Lock(t)
    /\ th' = [th EXCEPT ![t].pc = "disable_isEnabled"]
    /\ UNCHANGED <<now, ttl, isEnabled, items, calls, history>>

disable_isEnabled_purge(t) ==
    /\ th[t].pc = "disable_isEnabled"
    /\ isEnabled' = FALSE
    /\ items' = EmptyMap
    /\ Unlock(t)
    /\ Return(t, NoRes)
    /\ stored' = NoStored
    /\ seen' = [st |-> "hidden", m |-> items]
    /\ UNCHANGED <<options, received>>
    /\ UNCHANGED <<now, ttl, calls, sinceClear>>

\* line 108, then the deferred Unlock
disable_isEnabled(t) ==
    /\ th[t].pc = "disable_isEnabled"
    /\ isEnabled' = FALSE
    /\ Unlock(t)
    /\ Return(t, NoRes)
    /\ stored' = NoStored
    /\ seen' = [st |-> "hidden", m |-> items]
    /\ UNCHANGED <<options, received>>
    /\ UNCHANGED <<now, ttl, items, calls, sinceClear>>

\* ------------------------------------------------------------------ Client
\* calls in flight that may still reach the transport
InFlight == Cardinality({u \in Threads : th[u].pc # "idle" /\ th[u].op \in FetchOps \cup {"GetPredictions"}})
MayFetch == calls + InFlight < MaxCalls
\* a call for key that the cache will answer, whatever the clock reads when
\* the entry is tested: it may start when no request is left to send
MayServe(key, typ) ==
    /\ calls <= MaxCalls
    /\ \A u \in Threads : th[u].pc = "idle"
    /\ isEnabled
    /\ key \in DOMAIN items
    /\ items[key].expiration > MaxTime
    /\ Copy(items[key].data, typ).ok

GetAllRoutes_uncached(t) ==
    /\ Idle(t)
    /\ MayFetch
    /\ th' = [th EXCEPT ![t] = Enter(t, "GetAllRoutes", "Do", AllRoutesKey,
                                      TRoutes, NoData, "", "")]
    /\ UNCHANGED <<now, ttl, isEnabled, items, mutex, calls, history>>

\* lines 172-176
GetAllRoutes(t) ==
    /\ Idle(t)
    /\ MayFetch \/ MayServe(AllRoutesKey, TRoutes)
    /\ th' = [th EXCEPT ![t] = Enter(t, "GetAllRoutes", "get_isEnabled", AllRoutesKey,
                                      TRoutes, NoData, "", "")]
    /\ UNCHANGED <<now, ttl, isEnabled, items, mutex, calls, history>>

GetRouteDetails_unchecked(t, routeID) ==
    /\ Idle(t)
    /\ MayFetch \/ MayServe(RouteDetailsKey(routeID), TDetails)
    /\ th' = [th EXCEPT ![t] = Enter(t, "GetRouteDetails", "get_isEnabled",
                                      RouteDetailsKey(routeID), TDetails, NoData, routeID, "")]
    /\ UNCHANGED <<now, ttl, isEnabled, items, mutex, calls, history>>

\* lines 211-219
GetRouteDetails(t, routeID) ==
    /\ Idle(t)
    /\ MayFetch \/ MayServe(RouteDetailsKey(routeID), TDetails)
    /\ LET e == Enter(t, "GetRouteDetails", "get_isEnabled", RouteDetailsKey(routeID),
                      TDetails, NoData, routeID, "")
       IN  IF routeID = ""
           THEN th' = [th EXCEPT ![t] = [e EXCEPT !.pc = "idle", !.key = "",
                           !.res = Result(FALSE, NoData, ErrRouteIDRequired, 0)]]
           ELSE th' = [th EXCEPT ![t] = e]
    /\ UNCHANGED <<now, ttl, isEnabled, items, mutex, calls, history>>

GetPredictions_cached(t, routeID, stopID) ==
    /\ Idle(t)
    /\ MayFetch
    /\ LET e == Enter(t, "GetPredictions", "get_isEnabled", AllRoutesKey, TRoutes, NoData,
                      routeID, stopID)
       IN  IF routeID = ""
           THEN th' = [th EXCEPT ![t] = [e EXCEPT !.pc = "idle",
                           !.res = Result(FALSE, NoData, ErrRouteIDRequired, 0)]]
           ELSE IF stopID = ""
           THEN th' = [th EXCEPT ![t] = [e EXCEPT !.pc = "idle",
                           !.res = Result(FALSE, NoData, ErrStopIDRequired, 0)]]
           ELSE th' = [th EXCEPT ![t] = e]
    /\ UNCHANGED <<now, ttl, isEnabled, items, mutex, calls, history>>

GetPredictions_stopFirst(t, routeID, stopID) ==
    /\ Idle(t)
    /\ MayFetch
    /\ LET e == Enter(t, "GetPredictions", "Do", "", TPredResp, NoData, routeID, stopID)
       IN  IF stopID = ""
           THEN th' = [th EXCEPT ![t] = [e EXCEPT !.pc = "idle",
                           !.res = Result(FALSE, NoData, ErrStopIDRequired, 0)]]
           ELSE IF routeID = ""
           THEN th' = [th EXCEPT ![t] = [e EXCEPT !.pc = "idle",
                           !.res = Result(FALSE, NoData, ErrRouteIDRequired, 0)]]
           ELSE th' = [th EXCEPT ![t] = e]
    /\ UNCHANGED <<now, ttl, isEnabled, items, mutex, calls, history>>

\* lines 254-260
GetPredictions(t, routeID, stopID) ==
    /\ Idle(t)
    /\ MayFetch
    /\ LET e == Enter(t, "GetPredictions", "Do", "", TPredResp, NoData, routeID, stopID)
       IN  IF routeID = ""
           THEN th' = [th EXCEPT ![t] = [e EXCEPT !.pc = "idle",
                           !.res = Result(FALSE, NoData, ErrRouteIDRequired, 0)]]
           ELSE IF stopID = ""
           THEN th' = [th EXCEPT ![t] = [e EXCEPT !.pc = "idle",
                           !.res = Result(FALSE, NoData, ErrStopIDRequired, 0)]]
           ELSE th' = [th EXCEPT ![t] = e]
    /\ UNCHANGED <<now, ttl, isEnabled, items, mutex, calls, history>>

Quot_round(a, b) == IF a >= 0 THEN (a + b \div 2) \div b ELSE -((-a + b \div 2) \div b)

\* Go's integer division truncates toward zero
Quot(a, b) == IF a >= 0 THEN a \div b ELSE -((-a) \div b)

\* time.Unix(sec, nsec), for the nsec = 0 of line 299
Unix(sec, nsec) == [sec |-> sec, nsec |-> nsec]

ToPrediction_swapNames(val) ==
    [VehicleID |-> val.vehicleId,
     Minutes |-> val.minutes,
     Direction |-> val.direction.destinationName,
     DestinationName |-> val.direction.name,
     Timestamp |-> Unix(Quot(val.timestamp, 1000), 0),
     VehicleType |-> val.vehicleType,
     IsDeparture |-> val.isDeparture]

\* lines 294-302: the Prediction made of one PredictionValue
ToPrediction(val) ==
    [VehicleID |-> val.vehicleId,
     Minutes |-> val.minutes,
     Direction |-> val.direction.name,
     DestinationName |-> val.direction.destinationName,
     Timestamp |-> Unix(Quot(val.timestamp, 1000), 0),
     VehicleType |-> val.vehicleType,
     IsDeparture |-> val.isDeparture]

Flatten_lastEnvelope(predictionResponse) ==
    LET n == Len(predictionResponse)
    IN  IF n = 0 \/ Len(predictionResponse[n]) = 0
        THEN GoVal(TPreds, FALSE, <<>>)
        ELSE GoVal(TPreds, FALSE,
                   [i \in 1..Len(predictionResponse[n]) |-> ToPrediction(predictionResponse[n][i])])

\* lines 287-305: the first envelope's values, one Prediction each
Flatten(predictionResponse) ==
    IF Len(predictionResponse) = 0 \/ Len(predictionResponse[1]) = 0
    THEN GoVal(TPreds, FALSE, <<>>)
    ELSE GoVal(TPreds, FALSE,
               [i \in 1..Len(predictionResponse[1]) |-> ToPrediction(predictionResponse[1][i])])

StatusAccepted_not500(resp) == resp.status # 500

\* lines 195, 238, 277: only a 200 is read further
StatusAccepted(resp) == resp.status = StatusOK

\* the ids formatted into the request URL
URLIds(t) ==
    IF th[t].op = "GetAllRoutes" THEN <<>>
    ELSE IF th[t].op = "GetRouteDetails" THEN <<th[t].routeID>>
    ELSE <<th[t].routeID, th[t].stopID>>

\* the errors http.Client.Do returns when the round trip is cut short
ErrTimeout == "Client.Timeout exceeded"
ErrCanceled == "context canceled"

Fail_retryOnce(t, resp, err, code) ==
    IF calls - th[t].calls0 < 2
    THEN th' = [th EXCEPT ![t].pc = "Do", ![t].resp = resp]
    ELSE th' = [th EXCEPT ![t].pc = "idle", ![t].resp = resp,
                          ![t].res = Result(FALSE, NoData, err, code)]

\* `return nil, err` after the request was sent: lines 184-196, 199-201 and
\* their twins in GetRouteDetails and GetPredictions
Fail(t, resp, err, code) ==
    th' = [th EXCEPT ![t].pc = "idle", ![t].resp = resp,
                     ![t].res = Result(FALSE, NoData, err, code)]

Do_collapsed(t) ==
    /\ th[t].pc = "Do"
    /\ IF ~NewRequestOK(URLIds(t))
       THEN /\ Return(t, Result(FALSE, NoData, ErrRequest, 0))
            /\ UNCHANGED calls
       ELSE /\ calls' = IF \E u \in Threads \ {t} :
                              th[u].pc = "RoundTrip" /\ th[u].key = th[t].key
                        THEN calls ELSE calls + 1
            /\ th' = [th EXCEPT ![t].pc = "RoundTrip"]
    /\ UNCHANGED <<now, ttl, isEnabled, items, mutex, history>>

\* the request is built and handed to the http.Client: GetAllRoutes 180-190,
\* GetRouteDetails 223-233, GetPredictions 262-271
Do(t) ==
    /\ th[t].pc = "Do"
    /\ IF ~NewRequestOK(URLIds(t))
       THEN /\ Return(t, Result(FALSE, NoData, ErrRequest, 0))
            /\ UNCHANGED calls
       ELSE /\ calls' = calls + 1
            /\ th' = [th EXCEPT ![t].pc = "RoundTrip"]
    /\ UNCHANGED <<now, ttl, isEnabled, items, mutex, history>>

\* what the client has been handed so far: the answer resp to the request of
\* t counts when it is a 200 whose body decodes into the result type of a
\* GetAllRoutes or GetRouteDetails
Received(t, resp) ==
    LET d == Unmarshal(resp.body, th[t].typ)
    IN  IF th[t].op \in FetchOps /\ resp.err = ErrNone /\ StatusAccepted(resp) /\ d.ok
        THEN [k \in DOMAIN received \cup {th[t].key} |->
                 IF k = th[t].key THEN d.val ELSE received[k]]
        ELSE received

Respond_storeUndecoded(t) ==
    /\ th[t].pc = "RoundTrip"
    /\ \E resp \in Responses(IF th[t].op = "GetPredictions" THEN PredBodies ELSE Bodies) :
         /\ received' = Received(t, resp)
         /\ LET d == Unmarshal(resp.body, th[t].typ)
            IN  IF resp.err # ErrNone
                THEN Fail(t, resp, ErrTransport, 0)
                ELSE IF ~StatusAccepted(resp)
                THEN Fail(t, resp, ErrStatus, resp.status)
                ELSE IF th[t].op = "GetPredictions"
                THEN IF ~d.ok
                     THEN Fail(t, resp, ErrDecode, 0)
                     ELSE th' = [th EXCEPT ![t].pc = "idle", ![t].resp = resp,
                                    ![t].res = Result(FALSE, Flatten(d.val.v), ErrNone, 0)]
                ELSE th' = [th EXCEPT ![t].pc = "set_isEnabled", ![t].resp = resp,
                               ![t].data = d.val]
    /\ UNCHANGED <<now, ttl, isEnabled, items, mutex, calls, stored, sinceClear, seen, options>>

\* the upstream answers and the answer is read: GetAllRoutes 190-203,
\* GetRouteDetails 233-246, GetPredictions 271-305
Respond(t) ==
    /\ th[t].pc = "RoundTrip"
    /\ \E resp \in Responses(IF th[t].op = "GetPredictions" THEN PredBodies ELSE Bodies) :
         /\ received' = Received(t, resp)
         /\ LET d == Unmarshal(resp.body, th[t].typ)
            IN  IF resp.err # ErrNone
                THEN Fail(t, resp, ErrTransport, 0)
                ELSE IF ~StatusAccepted(resp)
                THEN Fail(t, resp, ErrStatus, resp.status)
                ELSE IF ~d.ok
                THEN Fail(t, resp, ErrDecode, 0)
                ELSE IF th[t].op = "GetPredictions"
                THEN th' = [th EXCEPT ![t].pc = "idle", ![t].resp = resp,
                               ![t].res = Result(FALSE, Flatten(d.val.v), ErrNone, 0)]
                ELSE th' = [th EXCEPT ![t].pc = "set_isEnabled", ![t].resp = resp,
                               ![t].data = d.val]
    /\ UNCHANGED <<now, ttl, isEnabled, items, mutex, calls, stored, sinceClear, seen, options>>

Timeout_never(t) ==
    /\ th[t].pc = "RoundTrip"
    /\ th[t].resp # NoResp
    /\ Fail(t, [err |-> ErrTimeout, status |-> 0, body |-> Null], ErrTransport, 0)
    /\ UNCHANGED <<now, ttl, isEnabled, items, mutex, calls, history>>

\* line 140: the http.Client's Timeout of 10 seconds runs out while the
\* request is in flight or its body is being read; Do (or the decoder's read)
\* returns an error
Timeout(t) ==
    /\ th[t].pc = "RoundTrip"
    /\ Fail(t, [err |-> ErrTimeout, status |-> 0, body |-> Null], ErrTransport, 0)
    /\ UNCHANGED <<now, ttl, isEnabled, items, mutex, calls, history>>

\* the caller cancels the context the request was built with (lines 182,
\* 225, 264): the http.Client aborts the request and Do returns an error
Cancel(t) ==
    /\ th[t].pc = "RoundTrip"
    /\ Fail(t, [err |-> ErrCanceled, status |-> 0, body |-> Null], ErrTransport, 0)
    /\ UNCHANGED <<now, ttl, isEnabled, items, mutex, calls, history>>

\* the round trip of a request ends
RoundTrip(t) == Respond(t) \/ Timeout(t) \/ Cancel(t)

\* ------------------------------------------------------------ tool handlers
\* the server receives a tool call and hands it to the tool's handler
Receive(t, name, args) ==
    /\ Idle(t)
    /\ th[t].tool.phase \in {"none", "done"}
    /\ th' = [th EXCEPT ![t].tool = [name |-> name, args |-> args, phase |-> "received",
                                      called |-> FALSE, out |-> NoOut]]
    /\ UNCHANGED <<now, ttl, isEnabled, items, mutex, calls, history>>

\* the handler of tool name has the call and has not yet called the client
Handling(t, name) ==
    /\ th[t].tool.phase = "received" /\ ~th[t].tool.called
    /\ th[t].tool.name = name

\* a handler returns (result, nil)
Reply(t, result) ==
    /\ th' = [th EXCEPT ![t].tool.phase = "done",
                        ![t].tool.out = [result |-> result, err |-> ErrNone]]
    /\ UNCHANGED <<now, ttl, isEnabled, items, mutex, calls, history>>

\* lines 116-129
newJSONToolResult(data) ==
    IF ~Marshal(data).ok
    THEN NewToolResultError("Failed to marshal to JSON: unsupported type")
    ELSE CallToolResult(FALSE, <<TextContent(Marshal(data).doc)>>)

\* the argument checks, up to the call of the client
healthCheckHandler(t) == Handling(t, "health_check") /\ GetAllRoutes(t)

listAllRoutesHandler(t) == Handling(t, "list_all_routes") /\ GetAllRoutes(t)

getRouteDetailsHandler(t) ==
    /\ Handling(t, "get_route_details")
    /\ LET route_id == th[t].tool.args.route_id
       IN  IF route_id.kind # "string"
           THEN Reply(t, NewToolResultError("route_id must be a string"))
           ELSE GetRouteDetails(t, route_id.v)

getPredictionsHandler_stopFirst(t) ==
    /\ Handling(t, "get_predictions")
    /\ LET route_id == th[t].tool.args.route_id
           stop_id == th[t].tool.args.stop_id
       IN  IF stop_id.kind # "string"
           THEN Reply(t, NewToolResultError("stop_id must be a string"))
           ELSE IF route_id.kind # "string"
           THEN Reply(t, NewToolResultError("route_id must be a string"))
           ELSE GetPredictions(t, route_id.v, stop_id.v)

\* lines 164-181, up to the call of the client
getPredictionsHandler(t) ==
    /\ Handling(t, "get_predictions")
    /\ LET route_id == th[t].tool.args.route_id
           stop_id == th[t].tool.args.stop_id
       IN  IF route_id.kind # "string"
           THEN Reply(t, NewToolResultError("route_id must be a string"))
           ELSE IF stop_id.kind # "string"
           THEN Reply(t, NewToolResultError("stop_id must be a string"))
           ELSE GetPredictions(t, route_id.v, stop_id.v)

clearCacheHandler(t) == Handling(t, "clear_cache") /\ ClearCache(t)

toggleCacheHandler_inverted(t) ==
    /\ Handling(t, "toggle_cache")
    /\ LET enabled == th[t].tool.args.enabled
       IN  IF enabled.kind # "bool"
           THEN Reply(t, NewToolResultError("enabled must be a boolean"))
           ELSE IF enabled = Bool(TRUE) THEN DisableCache(t) ELSE EnableCache(t)

\* lines 188-201, up to the call of the client
toggleCacheHandler(t) ==
    /\ Handling(t, "toggle_cache")
    /\ LET enabled == th[t].tool.args.enabled
       IN  IF enabled.kind # "bool"
           THEN Reply(t, NewToolResultError("enabled must be a boolean"))
           ELSE IF enabled = Bool(TRUE) THEN EnableCache(t) ELSE DisableCache(t)

ToolResult_healthy(name, args, res) ==
    IF name = "health_check"
    THEN NewToolResultText("SF MUNI API server is healthy and running!")
    ELSE IF name = "list_all_routes"
    THEN IF res.err # ErrNone
         THEN NewToolResultError("Failed to fetch routes: " \o res.err)
         ELSE newJSONToolResult(res.val)
    ELSE IF name = "get_route_details"
    THEN IF res.err # ErrNone
         THEN NewToolResultError("Failed to fetch route details: " \o res.err)
         ELSE newJSONToolResult(res.val)
    ELSE IF name = "get_predictions"
    THEN IF res.err # ErrNone
         THEN NewToolResultError("Failed to fetch predictions: " \o res.err)
         ELSE newJSONToolResult(res.val)
    ELSE IF name = "clear_cache"
    THEN NewToolResultText("MUNI API cache has been cleared")
    ELSE IF args.enabled = Bool(TRUE)
    THEN NewToolResultText("MUNI API cache is now enabled")
    ELSE NewToolResultText("MUNI API cache is now disabled")

\* what each handler makes of the client's answer: lines 133-136, 143-146,
\* 157-160, 176-179, 185, 196-200
ToolResult(name, args, res) ==
    IF name = "health_check"
    THEN IF res.err # ErrNone
         THEN NewToolResultError("MUNI API health check failed: " \o res.err)
         ELSE NewToolResultText("SF MUNI API server is healthy and running!")
    ELSE IF name = "list_all_routes"
    THEN IF res.err # ErrNone
         THEN NewToolResultError("Failed to fetch routes: " \o res.err)
         ELSE newJSONToolResult(res.val)
    ELSE IF name = "get_route_details"
    THEN IF res.err # ErrNone
         THEN NewToolResultError("Failed to fetch route details: " \o res.err)
         ELSE newJSONToolResult(res.val)
    ELSE IF name = "get_predictions"
    THEN IF res.err # ErrNone
         THEN NewToolResultError("Failed to fetch predictions: " \o res.err)
         ELSE newJSONToolResult(res.val)
    ELSE IF name = "clear_cache"
    THEN NewToolResultText("MUNI API cache has been cleared")
    ELSE IF args.enabled = Bool(TRUE)
    THEN NewToolResultText("MUNI API cache is now enabled")
    ELSE NewToolResultText("MUNI API cache is now disabled")

\* the client has returned into the handler, and the handler returns
handlerReturn(t) ==
    /\ Idle(t)
    /\ th[t].tool.phase = "received" /\ th[t].tool.called
    /\ Reply(t, ToolResult(th[t].tool.name, th[t].tool.args, th[t].res))

Handler(t) ==
    \/ healthCheckHandler(t) \/ listAllRoutesHandler(t)
    \/ getRouteDetailsHandler(t) \/ getPredictionsHandler(t)
    \/ clearCacheHandler(t) \/ toggleCacheHandler(t)
    \/ handlerReturn(t)

\* ------------------------------------------------------------ specification
\* one step of a Cache method in progress
CacheStep(t) ==
    \/ get_isEnabled(t) \/ get_RLock(t) \/ get_items(t) \/ get_isExpired(t)
    \/ set_isEnabled(t) \/ set_Lock(t) \/ set_items(t)
    \/ clear_Lock(t) \/ clear_items(t)
    \/ enable_Lock(t) \/ enable_isEnabled(t)
    \/ disable_Lock(t) \/ disable_isEnabled(t)

\* a goroutine calls an exported method of the Client
ClientCall(t) ==
    \/ ClearCache(t) \/ EnableCache(t) \/ DisableCache(t)
    \/ GetAllRoutes(t)
    \/ \E routeID \in RouteIDs : GetRouteDetails(t, routeID)
    \/ \E routeID \in RouteIDs, stopID \in StopIDs : GetPredictions(t, routeID, stopID)

\* a goroutine inside the package calls the Cache itself
CacheCall(t) ==
    \/ \E key \in Keys, typ \in Types : CacheGet(t, key, typ)
    \/ \E key \in Keys, data \in Values : CacheSet(t, key, data)
    \/ ClearCache(t) \/ EnableCache(t) \/ DisableCache(t)

\* the Client as the host uses it, one call at a time: a single goroutine
Next == Tick \/ ClientCall("t1") \/ CacheStep("t1") \/ Do("t1") \/ RoundTrip("t1")
Spec == Init /\ [][Next]_vars

\* the Cache on its own, one call at a time
NextCache == Tick \/ CacheCall("t1") \/ CacheStep("t1") \/ Mutate("t1")
SpecCache == Init /\ [][NextCache]_vars

\* the server: main builds its client with WithCacheTTL alone (the TTL read
\* from MUNI_CACHE_TTL, or the default), and the host sends one tool call at a
\* time
InitTools == Init /\ Len(options) = 1 /\ options[1].opt = "WithCacheTTL" /\ ttl > 0
NextTools ==
    \/ Tick
    \/ \E name \in Tools : \E args \in ToolArguments(name) : Receive("t1", name, args)
    \/ Handler("t1")
    \/ CacheStep("t1") \/ Do("t1") \/ RoundTrip("t1")
SpecTools == InitTools /\ [][NextTools]_vars

\* the client the server builds, used one call at a time, with the goroutine
\* scheduled until its call returns and the http.Client's timer running: a
\* request in flight is cut off by the timer if nothing else ends it
SpecLive ==
    /\ InitTools /\ [][Next]_vars
    /\ WF_vars(CacheStep("t1"))
    /\ WF_vars(Do("t1"))
    /\ WF_vars(Timeout("t1"))

\* overlapping calls on a client built with no options: every goroutine may
\* call and step at any time
InitC == Init /\ ttl = DefaultTTL /\ isEnabled
NextC ==
    \/ \E t \in Threads :
         \/ ClearCache(t) \/ EnableCache(t) \/ DisableCache(t)
         \/ GetAllRoutes(t)
         \/ CacheStep(t) \/ Do(t) \/ RoundTrip(t)
SpecC == InitC /\ [][NextC]_vars

\* a client built with no options whose cache also receives, from inside the
\* package, entries of any type under the keys the Fetch methods use; no
\* entry lives long enough to expire
NextCorrupt ==
    \/ \E key \in Keys, data \in Values : CacheSet("t1", key, data)
    \/ ClearCache("t1") \/ EnableCache("t1") \/ DisableCache("t1")
    \/ GetAllRoutes("t1")
    \/ \E routeID \in RouteIDs : GetRouteDetails("t1", routeID)
    \/ CacheStep("t1") \/ Do("t1") \/ RoundTrip("t1")
SpecCorrupt == InitC /\ [][NextCorrupt]_vars

\* a client built with no options, used one call at a time by a caller that
\* also writes into the routes a call returned to it
NextShared ==
    \/ Tick
    \/ ClearCache("t1") \/ EnableCache("t1") \/ DisableCache("t1")
    \/ GetAllRoutes("t1")
    \/ CacheStep("t1") \/ Do("t1") \/ RoundTrip("t1")
    \/ Mutate("t1")
SpecShared == InitC /\ [][NextShared]_vars

\* a client built with no options, asked for all routes and for the details
\* of two routes
KeyRouteIDs == {"N", "J"}
NextKeys ==
    \/ ClearCache("t1") \/ EnableCache("t1") \/ DisableCache("t1")
    \/ GetAllRoutes("t1")
    \/ \E routeID \in KeyRouteIDs : GetRouteDetails("t1", routeID)
    \/ CacheStep("t1") \/ Do("t1") \/ RoundTrip("t1")
SpecKeys == InitC /\ [][NextKeys]_vars

\* ------------------------------------------------------------------ claims
\* goroutine t has returned from a call of op
Done(t, op) == th[t].pc = "idle" /\ th[t].op = op

\* the entry a get looked up, if any, holds data of the type the caller asked for
WellTyped(t) ==
    th[t].key \in DOMAIN items => items[th[t].key].data.type = th[t].typ

\* C1, as stated: a get reports a hit exactly when the cache is enabled, an
\* entry for the key exists and the clock reading is strictly before the
\* entry's expiration, so a get at the expiration instant is a miss.  (Read
\* for the gets the claim has in mind, those that ask for the type that was
\* stored.)
C1_HitIffStrictlyBefore ==
    \A t \in Threads : (Done(t, "get") /\ WellTyped(t)) =>
        LET k == th[t].key
        IN  /\ th[t].res.hit <=>
                 (isEnabled /\ k \in DOMAIN items /\ th[t].at < items[k].expiration)
            /\ (k \in DOMAIN items /\ th[t].at >= items[k].expiration) => ~th[t].res.hit

\* C1, amended: a get reports a hit exactly when the cache is enabled, an
\* entry for the key exists, the clock reading is not after the entry's
\* expiration (the expiration instant itself is still a hit) and the stored
\* data can be copied into the caller's result; at every later time it is a
\* miss.
C1_HitIffNotAfter ==
    \A t \in Threads : Done(t, "get") =>
        LET k == th[t].key
        IN  /\ th[t].res.hit <=>
                 (/\ isEnabled
                  /\ k \in DOMAIN items
                  /\ th[t].at <= items[k].expiration
                  /\ Marshal(items[k].data).ok
                  /\ Unmarshal(Marshal(items[k].data).doc, th[t].typ).ok)
            /\ (k \in DOMAIN items /\ th[t].at > items[k].expiration) => ~th[t].res.hit

C1_HitAtExpiration ==
    \E t \in Threads :
        /\ Done(t, "get") /\ th[t].res.hit
        /\ th[t].key \in DOMAIN items
        /\ th[t].at = items[th[t].key].expiration

\* C2, as stated: no read of the cache's shared state runs concurrently with
\* a write of it: no goroutine is at its read of isEnabled or of items while
\* another is at its write of the same variable.
ReadsFlag(t) == th[t].pc \in {"get_isEnabled", "set_isEnabled"}
WritesFlag(t) == th[t].pc \in {"enable_isEnabled", "disable_isEnabled"}
ReadsItems(t) == th[t].pc = "get_items"
WritesItems(t) == th[t].pc \in {"set_items", "clear_items"}
C2_NoReadConcurrentWithWrite ==
    \A t \in Threads : \A u \in Threads \ {t} :
        /\ ~(WritesFlag(u) /\ (ReadsFlag(t) \/ WritesFlag(t)))
        /\ ~(WritesItems(u) /\ (ReadsItems(t) \/ WritesItems(t)))

\* C3: a get made after disable reports a miss; once enable has followed,
\* with no set or clear since the disable, a get for a key whose entry the
\* disable found, and which is still unexpired, reports a hit with the value
\* stored before the disable.
C3_DisableHidesEnableRestores ==
    \A t \in Threads : Done(t, "get") =>
        LET k == th[t].key
        IN  /\ seen.st = "hidden" => ~th[t].res.hit
            /\ (/\ seen.st = "restored"
                 /\ k \in DOMAIN seen.m
                 /\ th[t].at < seen.m[k].expiration
                 /\ th[t].typ = seen.m[k].data.type)
                => (th[t].res.hit /\ th[t].res.val = seen.m[k].data)

C3_HitAfterReenable ==
    \E t \in Threads :
        /\ Done(t, "get") /\ th[t].res.hit
        /\ seen.st = "restored" /\ th[t].key \in DOMAIN seen.m

\* C4: a set called while the cache is disabled leaves the mapping exactly as
\* it was when the call began.
C4_SetWhileDisabledIsNoOp ==
    \A t \in Threads :
        (Done(t, "set") /\ ~th[t].snap.isEnabled) => items = th[t].snap.items

C4_DisabledSetKeptOldEntry ==
    \E t \in Threads :
        /\ Done(t, "set") /\ ~th[t].snap.isEnabled
        /\ th[t].key \in DOMAIN items
        /\ items[th[t].key].data # th[t].data

\* C5: with the cache enabled and a TTL greater than zero, a get for a key
\* that follows the set of that key before the TTL has run out, with no
\* clear or disable in between, reports a hit and yields the value set.
C5_SetThenGet ==
    \A t \in Threads : Done(t, "get") =>
        LET k == th[t].key
        IN  (/\ isEnabled /\ ttl > 0
             /\ k \in DOMAIN stored
             /\ th[t].at - stored[k].at < ttl
             /\ th[t].typ = stored[k].data.type)
            => (th[t].res.hit /\ th[t].res.val = stored[k].data)

C5_GetHitAfterSet ==
    \E t \in Threads :
        /\ Done(t, "get") /\ th[t].res.hit /\ ttl > 0
        /\ th[t].key \in DOMAIN stored
        /\ th[t].res.val = stored[th[t].key].data

\* C6: when clear returns the mapping is empty, whether the cache is enabled
\* or not, and the enabled flag and the TTL are what they were; a get hits
\* only on a key set since the last clear.
C6_ClearEmpties ==
    \A t \in Threads :
        /\ Done(t, "clear") =>
              (/\ items = EmptyMap
               /\ isEnabled = th[t].snap.isEnabled
               /\ ttl = th[t].snap.ttl)
        /\ (Done(t, "get") /\ th[t].res.hit) => th[t].key \in sinceClear

C6_ClearedWhileDisabled ==
    \E t \in Threads :
        /\ Done(t, "clear") /\ ~isEnabled
        /\ th[t].snap.items # EmptyMap

\* C7: a GetAllRoutes or GetRouteDetails call whose cache lookup is made
\* within the TTL window of an entry that an earlier successful call of the
\* same operation and key stored, with no clear or disable since, issues no
\* request: it never reaches the transport, it returns the stored value, and
\* the transport call count is what it was when the call began.
InWindow(t) ==
    LET k == th[t].key
    IN  /\ th[t].op \in FetchOps
        /\ k \in DOMAIN stored
        /\ stored[k].by = th[t].op
        /\ th[t].at - stored[k].at < ttl
C7_SecondCallServedFromCache ==
    \A t \in Threads : InWindow(t) =>
        /\ th[t].pc \notin {"Do", "RoundTrip"}
        /\ (th[t].pc = "idle" /\ th[t].res.hit) =>
              (/\ th[t].res.val = stored[th[t].key].data
               /\ th[t].res.err = ErrNone
               /\ calls = th[t].calls0)

C7_TwoCallsOneRequest ==
    \E t \in Threads :
        /\ Done(t, "GetAllRoutes") /\ InWindow(t) /\ th[t].res.hit
        /\ th[t].res.val = GoVal(TRoutes, FALSE, <<"N", "J">>)
        /\ calls = 1

\* C8, as stated: every GetPredictions call with a non-empty routeID and
\* stopID issues exactly one upstream request, makes no cache access and
\* leaves the mapping unchanged.
C8_AlwaysExactlyOneRequest ==
    \A t \in Threads : th[t].op = "GetPredictions" =>
        /\ th[t].pc \in {"idle", "Do", "RoundTrip"}
        /\ (th[t].pc = "idle" /\ th[t].routeID # "" /\ th[t].stopID # "") =>
              (/\ calls = th[t].calls0 + 1
               /\ ~th[t].res.hit
               /\ items = th[t].snap.items)

\* C8, amended: every GetPredictions call with a non-empty routeID and stopID
\* makes no cache access and leaves the mapping unchanged; it issues exactly
\* one upstream request when the request can be built from the ids, and when
\* it cannot (the URL does not parse) it issues none and returns that error.
C8_NeverCached ==
    \A t \in Threads : th[t].op = "GetPredictions" =>
        /\ th[t].pc \in {"idle", "Do", "RoundTrip"}
        /\ (th[t].pc = "idle" /\ th[t].routeID # "" /\ th[t].stopID # "") =>
              (/\ IF th[t].routeID # BadEscape /\ th[t].stopID # BadEscape
                  THEN calls = th[t].calls0 + 1
                  ELSE calls = th[t].calls0 /\ th[t].res.err = ErrRequest
               /\ ~th[t].res.hit
               /\ items = th[t].snap.items)

C8_PredictionsFetchedBesideCache ==
    \E t \in Threads :
        /\ Done(t, "GetPredictions") /\ th[t].res.err = ErrNone
        /\ th[t].res.val.v # <<>>
        /\ calls = th[t].calls0 + 1
        /\ isEnabled /\ AllRoutesKey \in DOMAIN items

\* C9: when the upstream answers with a status other than 200, the call
\* returns the status error carrying that code and no value, and the mapping
\* is what it was when the call began.
C9_Non200IsErrorAndNotCached ==
    \A t \in Threads :
        (/\ th[t].pc = "idle"
         /\ th[t].op \in FetchOps \cup {"GetPredictions"}
         /\ th[t].resp.err = ErrNone
         /\ th[t].resp.status \notin {0, StatusOK})
        => (/\ th[t].res.err = ErrStatus
            /\ th[t].res.code = th[t].resp.status
            /\ th[t].res.val = NoData
            /\ items = th[t].snap.items)

C9_Non200OverExpiredEntry ==
    \E t \in Threads :
        /\ Done(t, "GetAllRoutes") /\ th[t].resp.status = 404
        /\ th[t].res.code = 404
        /\ AllRoutesKey \in DOMAIN items

\* C10: GetRouteDetails and GetPredictions called with an empty routeID
\* return the route-ID-required error at once: the call takes no step in the
\* cache or toward the transport, and the call count and the mapping are
\* what they were when it began.
C10_EmptyRouteIDRejectedFirst ==
    \A t \in Threads :
        (th[t].op \in {"GetRouteDetails", "GetPredictions"} /\ th[t].routeID = "")
        => (/\ th[t].pc = "idle"
            /\ th[t].res.err = ErrRouteIDRequired
            /\ th[t].res.val = NoData
            /\ calls = th[t].calls0
            /\ items = th[t].snap.items)

C10_EmptyRouteIDRejected ==
    \E t \in Threads :
        /\ Done(t, "GetRouteDetails") /\ th[t].routeID = ""
        /\ th[t].res.err = ErrRouteIDRequired
        /\ calls > 0 /\ DOMAIN items # {}

\* C11: GetPredictions tests routeID before stopID: called with an empty
\* stopID it returns the stop-ID-required error when routeID is non-empty and
\* the route-ID-required error when routeID is empty too, and either way it
\* returns at once, without a request.
C11_RouteIDCheckedBeforeStopID ==
    \A t \in Threads :
        (th[t].op = "GetPredictions" /\ th[t].stopID = "")
        => (/\ th[t].pc = "idle"
            /\ th[t].res.err = (IF th[t].routeID = "" THEN ErrRouteIDRequired
                                                    ELSE ErrStopIDRequired)
            /\ th[t].resp = NoResp
            /\ calls = th[t].calls0)

C11_BothEmptyIsRouteError ==
    \E t \in Threads :
        /\ Done(t, "GetPredictions") /\ th[t].routeID = "" /\ th[t].stopID = ""
        /\ th[t].res.err = ErrRouteIDRequired

\* C12: a hit of get is a copy in the caller's own memory: once the caller has
\* written into the value an earlier get(k) hit gave it, the entry under k
\* still holds the data that was set, and a later get(k) hit (no set, clear or
\* disable in between) returns that data, not the caller's change.
C12_HitIsDecoupledCopy ==
    \A k \in DOMAIN stored :
        stored[k].mutated
        => (/\ k \in DOMAIN items => items[k].data = stored[k].data
            /\ \A t \in Threads :
                  (/\ Done(t, "get") /\ th[t].key = k /\ th[t].res.hit
                   /\ th[t].typ = stored[k].data.type)
                  => th[t].res.val = stored[k].data)

C12_HitAfterMutation ==
    \E t \in Threads :
        /\ Done(t, "get") /\ th[t].res.hit
        /\ th[t].key \in DOMAIN stored
        /\ stored[th[t].key].mutated
        /\ th[t].held.key = th[t].key
        /\ th[t].held.val = th[t].res.val
        /\ th[t].res.val = stored[th[t].key].data

\* C13: an entry set at time t under TTL d carries the expiration t + d: with
\* the cache enabled and no set, clear or disable since, a get of the key (for
\* the type that was stored) is a hit at every time strictly before t + d and
\* a miss at every time strictly after t + d.
C13_ExpiresAtSetTimePlusTTL ==
    \A t \in Threads : Done(t, "get") =>
        LET k == th[t].key
        IN  (/\ isEnabled
             /\ k \in DOMAIN stored
             /\ th[t].typ = stored[k].data.type)
            => (/\ k \in DOMAIN items
                /\ items[k].expiration = stored[k].at + ttl
                /\ th[t].at < stored[k].at + ttl => th[t].res.hit
                /\ th[t].at > stored[k].at + ttl => ~th[t].res.hit)

C13_MissAfterTTLRanOut ==
    \E t \in Threads :
        /\ Done(t, "get") /\ ~th[t].res.hit /\ isEnabled /\ ttl > 0
        /\ th[t].key \in DOMAIN stored
        /\ th[t].typ = stored[th[t].key].data.type
        /\ th[t].at > stored[th[t].key].at + ttl

\* C14: a set on an enabled cache leaves under its key exactly one entry, the
\* value given with expiration (time of this set) + TTL, whatever entry the
\* key held before, and every other key keeps the entry it had.
C14_SetReplacesValueAndExpiration ==
    \A t \in Threads : (Done(t, "set") /\ th[t].snap.isEnabled) =>
        LET k == th[t].key
        IN  /\ DOMAIN items = DOMAIN th[t].snap.items \cup {k}
            /\ k \in DOMAIN stored
            /\ items[k] = cacheEntry(th[t].data, stored[k].at + ttl)
            /\ \A other \in DOMAIN items \ {k} : items[other] = th[t].snap.items[other]

C14_OverwroteLiveEntry ==
    \E t \in Threads :
        /\ Done(t, "set") /\ th[t].snap.isEnabled
        /\ th[t].key \in DOMAIN th[t].snap.items
        /\ th[t].snap.items[th[t].key].data # items[th[t].key].data
        /\ th[t].snap.items[th[t].key].expiration < items[th[t].key].expiration
        /\ DOMAIN items # {th[t].key}

\* the envelope list a 200 answer to GetPredictions decoded to
Envelopes(t) == th[t].resp.body.payload
Answered(t) ==
    /\ Done(t, "GetPredictions")
    /\ th[t].resp # NoResp /\ th[t].resp.err = ErrNone /\ th[t].resp.status = StatusOK
    /\ th[t].resp.body.kind \in {"null", "array"}

\* C15: when the body decodes to an empty envelope list, or the first
\* envelope has no values (whatever later envelopes hold), GetPredictions
\* returns an empty, non-nil Prediction slice and no error.
C15_EmptyFirstEnvelopeGivesEmptyResult ==
    \A t \in Threads :
        (Answered(t) /\ (Len(Envelopes(t)) = 0 \/ Len(Envelopes(t)[1]) = 0))
        => (/\ th[t].res.err = ErrNone
            /\ th[t].res.val.type = TPreds
            /\ ~th[t].res.val.isNil
            /\ th[t].res.val.v = <<>>)

C15_LaterEnvelopeIgnored ==
    \E t \in Threads :
        /\ Answered(t)
        /\ Len(Envelopes(t)) > 1
        /\ Len(Envelopes(t)[1]) = 0 /\ Len(Envelopes(t)[2]) > 0
        /\ th[t].res.err = ErrNone /\ th[t].res.val.v = <<>>

\* C16: when the first envelope has values, GetPredictions returns one
\* Prediction per value of that envelope, in the same order: vehicle id,
\* minutes, vehicle type and isDeparture copied, direction and destination
\* name read from the value's direction object; later envelopes add nothing.
C16_OnePredictionPerFirstEnvelopeValue ==
    \A t \in Threads :
        (Answered(t) /\ Len(Envelopes(t)) > 0 /\ Len(Envelopes(t)[1]) > 0)
        => LET values == Envelopes(t)[1]
               predictions == th[t].res.val.v
           IN  /\ th[t].res.err = ErrNone
               /\ Len(predictions) = Len(values)
               /\ \A i \in 1..Len(values) :
                     /\ predictions[i].VehicleID = values[i].vehicleId
                     /\ predictions[i].Minutes = values[i].minutes
                     /\ predictions[i].VehicleType = values[i].vehicleType
                     /\ predictions[i].IsDeparture = values[i].isDeparture
                     /\ predictions[i].Direction = values[i].direction.name
                     /\ predictions[i].DestinationName = values[i].direction.destinationName

C16_TwoValuesFlattened ==
    \E t \in Threads :
        /\ Answered(t)
        /\ Len(Envelopes(t)) > 1
        /\ Len(Envelopes(t)[1]) = 2 /\ Len(Envelopes(t)[2]) > 0
        /\ Len(th[t].res.val.v) = 2
        /\ th[t].res.val.v[1].VehicleID # th[t].res.val.v[2].VehicleID
        /\ th[t].res.val.v[1].IsDeparture # Envelopes(t)[1][1].departure

\* C17: the Timestamp of every Prediction is the value's millisecond
\* timestamp cut to whole seconds toward zero, never rounded: it has no
\* sub-second part, and its seconds are the whole seconds that fit in ms.
C17_TimestampTruncatedToSeconds ==
    \A t \in Threads :
        (Answered(t) /\ Len(Envelopes(t)) > 0 /\ Len(Envelopes(t)[1]) > 0)
        => \A i \in 1..Len(Envelopes(t)[1]) :
             LET ms == Envelopes(t)[1][i].timestamp
                 ts == th[t].res.val.v[i].Timestamp
             IN  /\ ts.nsec = 0
                 /\ ms >= 0 => (ts.sec * 1000 <= ms /\ ms < (ts.sec + 1) * 1000)
                 /\ ms < 0 => (ts.sec * 1000 >= ms /\ ms > (ts.sec - 1) * 1000)

C17_UpperHalfNotRoundedUp ==
    \E t \in Threads :
        /\ Answered(t) /\ Len(Envelopes(t)) > 0 /\ Len(Envelopes(t)[1]) > 1
        /\ Envelopes(t)[1][1].timestamp = 1999
        /\ th[t].res.val.v[1].Timestamp = [sec |-> 1, nsec |-> 0]
        /\ Envelopes(t)[1][2].timestamp = -1500
        /\ th[t].res.val.v[2].Timestamp = [sec |-> -1, nsec |-> 0]

\* the round trip of goroutine t's call was cut short by the timer or by the
\* caller's cancellation
Aborted(t) == th[t].resp # NoResp /\ th[t].resp.err \in {ErrTimeout, ErrCanceled}

\* C18: every GetAllRoutes, GetRouteDetails and GetPredictions call that has
\* begun eventually returns; and a call whose request was cut short by the
\* 10-second timeout or by cancellation of its context returns a transport
\* error and no value, with the mapping as the call found it.
C18_FetchReturnsAndAbortIsTransportError ==
    /\ \A t \in Threads :
          (th[t].op \in FetchOps \cup {"GetPredictions"} /\ th[t].pc # "idle")
          ~> (th[t].pc = "idle")
    /\ [](\A t \in Threads :
            (th[t].pc = "idle" /\ Aborted(t))
            => (/\ th[t].res.err = ErrTransport
                /\ th[t].res.val = NoData
                /\ ~th[t].res.hit
                /\ items = th[t].snap.items))

C18_TimedOutOverExpiredEntry ==
    \E t \in Threads :
        /\ Done(t, "GetAllRoutes")
        /\ th[t].resp # NoResp /\ th[t].resp.err = ErrTimeout
        /\ th[t].res.err = ErrTransport
        /\ AllRoutesKey \in DOMAIN items
        /\ th[t].at > items[AllRoutesKey].expiration

\* C19: no call retries: a GetAllRoutes, GetRouteDetails or GetPredictions
\* call sends at most one request, and none when it returns a precondition
\* error or a cache hit; once a request has been sent the call never builds
\* another, and a transport failure, a non-200 status or an undecodable body
\* is returned as the call's error after that one request.
C19_AtMostOneRequestNoRetry ==
    \A t \in Threads : th[t].op \in FetchOps \cup {"GetPredictions"} =>
        /\ calls - th[t].calls0 \in {0, 1}
        /\ th[t].pc = "Do" => (calls = th[t].calls0 /\ th[t].resp = NoResp)
        /\ (/\ th[t].pc = "idle"
            /\ \/ th[t].res.hit
               \/ th[t].res.err \in {ErrRouteIDRequired, ErrStopIDRequired, ErrRequest})
           => calls = th[t].calls0
        /\ (/\ th[t].resp # NoResp
            /\ \/ th[t].resp.err # ErrNone
               \/ th[t].resp.status # StatusOK
               \/ ~Unmarshal(th[t].resp.body, th[t].typ).ok)
           => (/\ th[t].pc = "idle"
               /\ calls = th[t].calls0 + 1
               /\ th[t].res.val = NoData
               /\ th[t].res.err =
                     (IF th[t].resp.err # ErrNone THEN ErrTransport
                      ELSE IF th[t].resp.status # StatusOK THEN ErrStatus
                      ELSE ErrDecode))

C19_DecodeErrorAfterOneRequest ==
    \E t \in Threads :
        /\ Done(t, "GetRouteDetails")
        /\ th[t].resp # NoResp /\ th[t].resp.err = ErrNone
        /\ th[t].resp.status = StatusOK /\ th[t].resp.body = Malformed
        /\ th[t].res.err = ErrDecode
        /\ calls = th[t].calls0 + 1

\* C20: every tool call that a handler has finished has a result: for each
\* of the six tools, whatever the arguments and whatever the client answered,
\* the handler returned a non-nil result and a nil error; and when the client
\* returned an error the result is an error result carrying one text.
ToolDone(t) == th[t].tool.phase = "done"
C20_EveryToolCallYieldsResult ==
    \A t \in Threads : ToolDone(t) =>
        LET out == th[t].tool.out
        IN  /\ ~out.result.isNil
            /\ out.err = ErrNone
            /\ Len(out.result.Content) = 1
            /\ (th[t].tool.called /\ th[t].res.err # ErrNone)
               => (/\ out.result.IsError
                   /\ out.result.Content[1].type = "text"
                   /\ out.result.Content[1].text # "")

C20_HealthCheckReportsClientError ==
    \E t \in Threads :
        /\ ToolDone(t) /\ th[t].tool.name = "health_check"
        /\ th[t].tool.called /\ th[t].res.err = ErrStatus
        /\ th[t].tool.out.result.IsError

\* C21: toggle_cache with enabled = true calls EnableCache and nothing else
\* of the client, with enabled = false DisableCache and nothing else; with
\* enabled missing or not a boolean the handler answers with an error result
\* in one step that calls no client method and leaves the enabled flag as it
\* was.
C21_ToggleCallsTheMethodAsked ==
    /\ [](\A t \in Threads : th[t].tool.name = "toggle_cache" =>
            LET enabled == th[t].tool.args.enabled
            IN  /\ th[t].tool.called =>
                      (/\ enabled.kind = "bool"
                       /\ th[t].op = (IF enabled = Bool(TRUE) THEN "enable" ELSE "disable"))
                /\ (ToolDone(t) /\ enabled.kind = "bool") =>
                      (/\ th[t].tool.called
                       /\ ~th[t].tool.out.result.IsError
                       /\ isEnabled = (enabled = Bool(TRUE)))
                /\ (ToolDone(t) /\ enabled.kind # "bool") =>
                      (~th[t].tool.called /\ th[t].tool.out.result.IsError))
    /\ [][\A t \in Threads :
            (/\ Handling(t, "toggle_cache")
             /\ th[t].tool.args.enabled.kind # "bool"
             /\ th'[t].tool # th[t].tool)
            => (/\ th'[t].tool.phase = "done"
                /\ th'[t].op = th[t].op
                /\ isEnabled' = isEnabled)]_vars

C21_ToggledOff ==
    \E t \in Threads :
        /\ ToolDone(t) /\ th[t].tool.name = "toggle_cache"
        /\ th[t].tool.args.enabled = Bool(FALSE)
        /\ th[t].tool.called /\ th[t].op = "disable"
        /\ ~isEnabled

\* the required string argument of the tool call of t that is missing or not
\* a string, route_id first ("none" when the arguments are in order)
BadArgument(t) ==
    LET name == th[t].tool.name
        args == th[t].tool.args
    IN  IF name \notin {"get_route_details", "get_predictions"} THEN "none"
        ELSE IF args.route_id.kind # "string" THEN "route_id"
        ELSE IF name = "get_predictions" /\ args.stop_id.kind # "string" THEN "stop_id"
        ELSE "none"

\* C22: get_route_details and get_predictions answer a call whose route_id
\* (or, for get_predictions, stop_id) is missing or not a string with an
\* error result naming that argument, route_id before stop_id, and the step
\* that answers calls no client method: no cache access, no request.
C22_BadArgumentNeverReachesClient ==
    /\ [](\A t \in Threads : BadArgument(t) # "none" =>
            /\ ~th[t].tool.called
            /\ ToolDone(t) =>
                  (/\ th[t].tool.out.result.IsError
                   /\ th[t].tool.out.result.Content
                        = <<TextContent(BadArgument(t) \o " must be a string")>>))
    /\ [][\A t \in Threads :
            (BadArgument(t) # "none" /\ th[t].tool.phase = "received"
             /\ th'[t].tool # th[t].tool)
            => (/\ th'[t].tool.phase = "done"
                /\ th'[t].op = th[t].op /\ th'[t].pc = "idle"
                /\ calls' = calls /\ items' = items /\ mutex' = mutex
                /\ isEnabled' = isEnabled)]_vars

C22_RouteIDNamedBeforeStopID ==
    \E t \in Threads :
        /\ ToolDone(t) /\ th[t].tool.name = "get_predictions"
        /\ th[t].tool.args.route_id = Missing
        /\ th[t].tool.args.stop_id.kind = "number"
        /\ th[t].tool.out.result = NewToolResultError("route_id must be a string")

\* C23, as stated: health_check returns the healthy text only if, during that
\* same tool call, an all-routes request reached the upstream and was
\* answered with status 200, and returns an error result otherwise.
Healthy == NewToolResultText("SF MUNI API server is healthy and running!")
C23_HealthyOnlyAfterUpstream200 ==
    \A t \in Threads : (ToolDone(t) /\ th[t].tool.name = "health_check") =>
        /\ th[t].tool.out.result = Healthy =>
              (/\ calls = th[t].calls0 + 1
               /\ th[t].resp # NoResp
               /\ th[t].resp.err = ErrNone
               /\ th[t].resp.status = StatusOK)
        /\ th[t].tool.out.result # Healthy => th[t].tool.out.result.IsError

\* the options of kind opt that NewClient was given
Given(opt) == {options[i] : i \in {j \in DOMAIN options : options[j].opt = opt}}
\* no method of the client has been called since it was constructed
Fresh == \A t \in Threads : th[t].op = "none"

\* C24, as stated: a client built with no options starts with the cache
\* enabled and a TTL of 5 minutes; built with the TTL option for d its TTL is
\* d; built with the cache-disabled option its cache starts disabled, and as
\* long as the cache is disabled a GetAllRoutes or GetRouteDetails call gets
\* no hit and leaves the mapping as it found it.
C24_OptionsDecideTheCache ==
    /\ Fresh =>
          /\ options = <<>> => (isEnabled /\ ttl = DefaultTTL /\ items = EmptyMap)
          /\ \A d \in OptTTLs : Given("WithCacheTTL") = {WithCacheTTL(d)} => ttl = d
          /\ Given("WithoutCache") # {} => ~isEnabled
    /\ \A t \in Threads :
          (/\ th[t].pc = "idle" /\ th[t].op \in FetchOps
           /\ ~th[t].snap.isEnabled /\ ~isEnabled)
          => (~th[t].res.hit /\ items = th[t].snap.items)

\* the Fetch call of t looked up, before its expiration, an entry whose data
\* cannot be copied into the type the call asks for
FoundCorrupt(t) ==
    /\ th[t].op \in FetchOps
    /\ th[t].pc \notin {"get_isEnabled", "get_RLock", "get_items", "get_isExpired"}
    /\ th[t].snap.isEnabled
    /\ th[t].key \in DOMAIN th[t].snap.items
    /\ th[t].at <= th[t].snap.items[th[t].key].expiration
    /\ LET text == Marshal(th[t].snap.items[th[t].key].data)
       IN  ~text.ok \/ ~Unmarshal(text.doc, th[t].typ).ok

C26_ExpiredEntryDiscardedByGet ==
    \A t \in Threads : (Done(t, "get") /\ th[t].snap.isEnabled) =>
        LET k == th[t].key
            m == th[t].snap.items
        IN  IF k \in DOMAIN m /\ th[t].at > m[k].expiration
            THEN items = [j \in DOMAIN m \ {k} |-> m[j]]
            ELSE items = m

\* C27: enable and disable set the gate and nothing else: after enable the
\* cache is enabled, after disable disabled, and the mapping (every entry's
\* value and expiration) and the TTL are what they were when the call began;
\* so an enable on an enabled cache, and a disable on a disabled one, leaves
\* the cache exactly as it found it.
C27_EnableDisableTouchOnlyTheGate ==
    \A t \in Threads :
        /\ Done(t, "enable") =>
              (isEnabled /\ items = th[t].snap.items /\ ttl = th[t].snap.ttl)
        /\ Done(t, "disable") =>
              (~isEnabled /\ items = th[t].snap.items /\ ttl = th[t].snap.ttl)
        /\ (th[t].pc = "idle" /\ th[t].op \in {"enable", "disable"}
             /\ th[t].snap.isEnabled = (th[t].op = "enable"))
           => [items |-> items, isEnabled |-> isEnabled, ttl |-> ttl] = th[t].snap

C27_EnabledTwiceKeepsEntries ==
    \E t \in Threads :
        /\ Done(t, "enable") /\ th[t].snap.isEnabled /\ isEnabled
        /\ seen.st = "restored"
        /\ items # EmptyMap /\ items = seen.m

\* the Fetch call of t has handed its request to the transport
Sent(t) ==
    /\ th[t].op \in FetchOps
    /\ \/ th[t].pc \in {"RoundTrip", "set_isEnabled", "set_Lock", "set_items"}
       \/ th[t].pc = "idle" /\ th[t].resp # NoResp
Least(a, b) == IF a <= b THEN a ELSE b

\* C28: concurrent misses are not collapsed: two Fetch calls in progress that
\* both missed have each sent a request of their own, each goes on to store
\* the value its own answer decoded to, and the entry under the key is the
\* one the latest set wrote (one entry, value and expiration of that set).
C28_ConcurrentMissesBothFetchLastWriteWins ==
    /\ \A t \in Threads : \A u \in Threads \ {t} :
          (Sent(t) /\ Sent(u)) => calls >= Least(th[t].calls0, th[u].calls0) + 2
    /\ \A t \in Threads :
          (/\ th[t].op \in FetchOps
           /\ \/ th[t].pc \in {"set_isEnabled", "set_Lock", "set_items"}
              \/ th[t].pc = "idle" /\ ~th[t].res.hit /\ th[t].res.err = ErrNone)
          => (/\ th[t].resp # NoResp /\ th[t].resp.status = StatusOK
              /\ th[t].data = Unmarshal(th[t].resp.body, th[t].typ).val)
    /\ \A k \in DOMAIN stored :
          /\ k \in DOMAIN items
          /\ items[k] = cacheEntry(stored[k].data, stored[k].at + ttl)

C28_TwoMissesTwoRequestsOneEntry ==
    /\ \A t \in Threads :
          /\ Done(t, "GetAllRoutes") /\ ~th[t].res.hit /\ th[t].res.err = ErrNone
          /\ th[t].calls0 = 0
    /\ calls = 2
    /\ th["t1"].data # th["t2"].data
    /\ AllRoutesKey \in DOMAIN stored
    /\ items[AllRoutesKey].data = stored[AllRoutesKey].data
    /\ items[AllRoutesKey].data \in {th["t1"].data, th["t2"].data}

\* C29, as stated: in every interleaving of set with disable and enable, no
\* set writes the mapping while the cache is disabled: the step in which a
\* set stores its value is never taken after a disable has completed and
\* before a later enable.
C29_NoSetWriteWhileDisabled ==
    [][\A t \in Threads :
          (th[t].pc = "set_items" /\ th'[t].pc # "set_items" /\ items' # items)
          => isEnabled]_vars

\* C30: GetAllRoutes and GetRouteDetails reach their cache.set only with an
\* answer of status 200 whose body decoded; a call that ends in a transport
\* error (timeout and cancellation included) or a decode error returns that
\* error and no value, and the mapping is exactly what it was when the call
\* began, the entry under the call's key included.
C30_StoreOnlyAfterDecodedOK ==
    \A t \in Threads : th[t].op \in FetchOps =>
        LET resp == th[t].resp
            d == Unmarshal(resp.body, th[t].typ)
        IN  /\ th[t].pc \in {"set_isEnabled", "set_Lock", "set_items"} =>
                  (resp # NoResp /\ resp.err = ErrNone /\ resp.status = StatusOK /\ d.ok)
            /\ (/\ th[t].pc = "idle" /\ resp # NoResp
                 /\ (resp.err # ErrNone \/ (resp.status = StatusOK /\ ~d.ok)))
               => (/\ th[t].res.err = (IF resp.err # ErrNone THEN ErrTransport ELSE ErrDecode)
                   /\ th[t].res.val = NoData
                   /\ items = th[t].snap.items)

C30_CancelledOverExpiredEntry ==
    \E t \in Threads :
        /\ Done(t, "GetRouteDetails")
        /\ th[t].resp # NoResp /\ th[t].resp.err = ErrCanceled
        /\ th[t].res.err = ErrTransport
        /\ th[t].key \in DOMAIN items
        /\ th[t].at > items[th[t].key].expiration
        /\ items = th[t].snap.items

\* ------------------------------------------------------------------- C31
\* C31, as stated: once a ClearCache has returned, no call whose request was
\* already handed to the transport when that clear returned goes on to write
\* the value of its answer into the cache: a fetch in flight during a clear
\* does not repopulate the cache.
C31_NoStoreOfPreClearResponse ==
    [][\A t \in Threads :
          ~(/\ th[t].op \in FetchOps
            /\ th[t].overtaken
            /\ th[t].pc = "set_items"
            /\ th'[t].pc = "idle"
            /\ th[t].key \in DOMAIN items'
            /\ items'[th[t].key].data = th[t].data)]_vars

\* ------------------------------------------------------------------- C32
\* C32, as stated: whenever GetAllRoutes or GetRouteDetails answers from the
\* cache, the value it returns is the one of the latest answer for that key
\* that the client received and decoded; it never returns an older one after
\* a newer one has been received (for instance while the cache was disabled).
C32_HitReturnsLatestReceived ==
    [][\A t \in Threads :
          (/\ th[t].op \in FetchOps
           /\ th[t].pc # "idle" /\ th'[t].pc = "idle"
           /\ th'[t].res.hit
           /\ th[t].key \in DOMAIN received)
          => th'[t].res.val = received[th[t].key]]_vars

\* ------------------------------------------------------------------- C33
\* C33, as stated: the value GetAllRoutes returns on the miss path is
\* decoupled from the entry it stored: once the caller has written into the
\* routes a miss returned, the entry under the key still holds the data that
\* was stored and a later hit for the key returns that data.
C33_MissValueIsDecoupledFromEntry ==
    \A k \in DOMAIN stored :
        (stored[k].mutated /\ stored[k].by \in FetchOps)
        => (/\ k \in DOMAIN items => items[k].data = stored[k].data
            /\ \A t \in Threads :
                  (th[t].op \in FetchOps /\ th[t].pc = "idle" /\ th[t].key = k
                   /\ th[t].res.hit)
                  => th[t].res.val = stored[k].data)

\* ------------------------------------------------------------------- C34
\* goroutine t holds the cache lock, for reading or for writing
Holds(t) == t \in mutex.readers \/ mutex.writer = t
\* the pcs between a Lock or RLock and its Unlock
Critical == {"get_items", "set_items", "clear_items", "enable_isEnabled", "disable_isEnabled"}
\* the call of goroutine t can take its next step
CanStep(t) == ENABLED (CacheStep(t) \/ Do(t) \/ RoundTrip(t))

\* C34: no call holds the cache lock while its request is being built or is
\* in flight, or after it has returned; the lock is held only between a Lock
\* (RLock) and the Unlock that follows it; and a call that cannot step is
\* waiting for a goroutine that is inside such a section and can step, never
\* for a fetch in flight: no state is a deadlock of the calls in progress.
C34_LockNeverHeldAcrossRequest ==
    /\ \A t \in Threads : Holds(t) <=> th[t].pc \in Critical
    /\ \A t \in Threads : th[t].pc \in {"idle", "Do", "RoundTrip"} => ~Holds(t)
    /\ \A t \in Threads :
          (th[t].pc # "idle" /\ ~CanStep(t))
          => \E h \in Threads \ {t} : Holds(h) /\ th[h].pc \in Critical /\ CanStep(h)

C34_ClearedWhileFetchInFlight ==
    \E t \in Threads : \E u \in Threads \ {t} :
        /\ th[t].op \in FetchOps /\ th[t].pc = "RoundTrip"
        /\ th[u].op = "clear" /\ th[u].pc = "idle"
        /\ calls >= 1 /\ th[u].calls0 = calls

\* ------------------------------------------------------------------- C35
\* the key each operation uses, as the claim gives it
KeyOf(op, routeID) == IF op = "GetAllRoutes" THEN "all_routes" ELSE "route_details:" \o routeID
\* route IDs the claim's key comparison is tried on
AnyRouteIDs == RouteIDs \cup KeyRouteIDs \cup {"all_routes", "route_details:"}

\* C35: GetAllRoutes reads and writes only the key "all_routes" and
\* GetRouteDetails for route r only "route_details:" + r; distinct route IDs
\* give distinct keys and none gives the all-routes key; so a hit returns a
\* value that the same operation stored for the same route, and a store
\* changes no entry but the one under the call's own key.
C35_KeysIsolateResults ==
    /\ [](/\ \A r1 \in AnyRouteIDs : \A r2 \in AnyRouteIDs \ {r1} :
               RouteDetailsKey(r1) # RouteDetailsKey(r2)
          /\ \A r \in AnyRouteIDs : RouteDetailsKey(r) # AllRoutesKey
          /\ \A t \in Threads :
               (th[t].op \in FetchOps /\ th[t].pc # "idle")
               => th[t].key = KeyOf(th[t].op, th[t].routeID)
          /\ \A t \in Threads :
               (th[t].op \in FetchOps /\ th[t].pc = "idle" /\ th[t].res.hit
                /\ th[t].key \in DOMAIN stored)
               => (/\ stored[th[t].key].by = th[t].op
                   /\ stored[th[t].key].routeID = th[t].routeID
                   /\ th[t].res.val = stored[th[t].key].data))
    /\ [][\A t \in Threads : \A k \in DOMAIN items :
            (th[t].op \in FetchOps /\ th[t].pc # "idle" /\ k # KeyOf(th[t].op, th[t].routeID))
            => (k \in DOMAIN items' /\ items'[k] = items[k])]_vars

C35_HitForOneRouteBesideAnother ==
    \E t \in Threads :
        /\ Done(t, "GetRouteDetails") /\ th[t].res.hit /\ th[t].routeID = "N"
        /\ RouteDetailsKey("J") \in DOMAIN items
        /\ items[RouteDetailsKey("J")].data # th[t].res.val

\* ------------------------------------------------------------------- C36
\* C36, as stated: the two options do not depend on the order they are given
\* in: a client built with both the cache-disabled option and the TTL option
\* for d has, before any call, a disabled cache whose TTL is d, whichever of
\* the two comes first.
C36_OptionOrderIrrelevant ==
    \A d \in OptTTLs :
        (/\ Fresh
         /\ Len(options) = 2
         /\ Given("WithoutCache") = {WithoutCache}
         /\ Given("WithCacheTTL") = {WithCacheTTL(d)})
        => (~isEnabled /\ ttl = d)

\* ------------------------------------------------------------------- C37
\* a GetAllRoutes call, or a GetRouteDetails call with a non-empty routeID,
\* that began on a disabled cache and has returned
DisabledFetch(t) ==
    /\ th[t].op \in FetchOps /\ th[t].pc = "idle"
    /\ ~th[t].snap.isEnabled
    /\ th[t].op = "GetRouteDetails" => th[t].routeID # ""

\* C37, as stated: while the cache is disabled every GetAllRoutes call and
\* every GetRouteDetails call with a non-empty routeID issues an upstream
\* request, is not answered from the cache and stores nothing: the request
\* count grows by one per call and the mapping stays as it was.
C37_DisabledFetchAlwaysOneRequest ==
    \A t \in Threads : DisabledFetch(t) =>
        /\ calls = th[t].calls0 + 1
        /\ ~th[t].res.hit
        /\ items = th[t].snap.items

\* C37, amended: while the cache is disabled such a call is never answered
\* from the cache and stores nothing; it issues exactly one upstream request
\* when the request can be built from the routeID, and when it cannot (the
\* URL does not parse) it issues none and returns that error.
C37_DisabledFetchBypassesCache ==
    \A t \in Threads : DisabledFetch(t) =>
        /\ IF NewRequestOK(URLIds(t))
           THEN calls = th[t].calls0 + 1 /\ th[t].resp # NoResp
           ELSE calls = th[t].calls0 /\ th[t].res.err = ErrRequest
        /\ ~th[t].res.hit
        /\ items = th[t].snap.items

C37_FetchedBesideLiveEntry ==
    \E t \in Threads :
        /\ DisabledFetch(t) /\ ~isEnabled
        /\ th[t].res.err = ErrNone
        /\ calls = th[t].calls0 + 1
        /\ th[t].key \in DOMAIN items
        /\ th[t].at < items[th[t].key].expiration
        /\ items[th[t].key].data # th[t].res.val

====
